---- MODULE Spec2Model ----
(***************************************************************************)
(* PhoenixZPA (scripts/phoenix_zpa_engine.py): a backing file mapped into  *)
(* memory and treated as an array of 64-byte FC496Struct records.          *)
(*                                                                         *)
(* Scaling.  The engine maps size_mb * 1024 * 1024 bytes; the model keeps  *)
(* the arithmetic but takes a "megabyte" of MB bytes (one atom), so that   *)
(* atom_capacity = size_mb.  64-bit fields are kept as four 16-bit words   *)
(* (most significant first).  Floating-point scores are kept in fixed      *)
(* point, in units of 10^-7.                                               *)
(***************************************************************************)
EXTENDS Integers, Sequences, FiniteSets

\* ---------------------------------------------------------------- constants
PHI_E7_INT == 16180339      \* PHI = 1.61803398875: PHI * 10^7 = 16180339.8875
PHI_E7_FRAC == 8875         \* ... the four decimals below 10^-7
H_THRESHOLD_E7 == 6180340   \* 1.0 / PHI = 0.61803398874...: x < H_THRESHOLD  <=>  floor(x * 10^7) < 6180340
ATOM_SIZE == 64
MAGIC_SIG == 496            \* 0x1F0
SCORE_CAP_E7 == 9900000     \* the 0.99 of min(0.99, ...)
PAYLOAD_SIZE == 32          \* ctypes.c_char * 32
UINT16 == 65536             \* range of a ctypes.c_uint16
FLAGS == 42                 \* 0b101010
MB == 64                    \* stands for 1024 * 1024 (scaled: one atom per "megabyte")

\* ------------------------------------------------------------------- bounds
size_mb == 2                \* constructor argument size_mb
MaxZeroLen == 40            \* all-zero payloads are scored up to this length
MaxScoreLen == 34           \* payloads are scored and encoded up to this length

\* ------------------------------------------------------------ derived sizes
size_bytes == size_mb * MB

\* Variant: a last, partial slot counted as well.
atom_capacity_plus_one == (size_bytes \div ATOM_SIZE) + 1

\* The value __init__ gives self.atom_capacity.
atom_capacity == size_bytes \div ATOM_SIZE

\* len(self.map): mmap.mmap(fileno, self.size_bytes) maps size_bytes bytes.
map_length == size_bytes

GEO_HASH == <<0, 0, 51966, 47806>>      \* 0xCAFEBABE
STRANDS == <<0, 0, 57005, 48879>>       \* 0xDEADBEEF
ZERO64 == <<0, 0, 0, 0>>

\* sizeof(FC496Struct) with _pack_ = 1: 2 + 8 + 8 + 2 + 2 + 2 + 32 + 8
SIZEOF_FC496 == 2 + 8 + 8 + 2 + 2 + 2 + PAYLOAD_SIZE + 8

\* ------------------------------------------------------------------- inputs
\* Byte strings handed to write_atom: n bytes cycling through d values.
\* d = 1: all zero bytes; d = 2: 1,0,1,0,...; d > n: 1,2,...,n (no zero byte).
Payload(n, d) == [k \in 1..n |-> k % d]
\* <<n, d>>: b"", b"\0", b"\0\0", b"\1\2", b"\0\0\0", b"\1\0\1", 33 zero bytes,
\* and the 33 distinct bytes 1..33.
Shapes ==
    {<<0, 1>>, <<1, 1>>, <<2, 1>>, <<2, 3>>, <<3, 1>>, <<3, 2>>,
     <<PAYLOAD_SIZE + 1, 1>>, <<PAYLOAD_SIZE + 1, PAYLOAD_SIZE + 2>>}
Payloads == {Payload(sh[1], sh[2]) : sh \in Shapes}
Indexes == (0 - 1)..atom_capacity
Schemas == {1, UINT16 - 1}
Times == {1}                \* int(time.time() * 1000), in model ticks

\* ------------------------------------------------------------------ storage
Offsets == {i * ATOM_SIZE : i \in 0..((size_bytes \div ATOM_SIZE) - 1)}

ZeroPayload == [k \in 1..PAYLOAD_SIZE |-> 0]

\* A slot of a file extended by truncate(): all bytes zero.
ZeroAtom ==
    [magic |-> 0, pi_index |-> 0, geo_hash |-> ZERO64, schema |-> 0,
     h_score |-> 0, flags |-> 0, payload |-> ZeroPayload, strands |-> ZERO64]

NoFile == << >>

\* No write_atom call is between two of its field assignments.
Idle == [pc |-> 0]

VARIABLES
    file,           \* bytes of the backing file (shared with the mapping), per slot offset; NoFile if absent
    map_closed,     \* self.map is closed (or not yet mapped)
    file_closed,    \* self.file_obj is closed
    atom,           \* offsets of the views the caller still holds (the driver's variable atom): {} or {offset}
    ret,            \* outcome of the last call on the engine
    written,        \* history: offsets that received an accepted write since the file was created
    self_atom_capacity, \* self.atom_capacity
    writer          \* a write_atom call in progress in the writer thread: the next field to assign, its overlay offset and the values it assigns

vars == <<file, map_closed, file_closed, atom, ret, written, self_atom_capacity, writer>>

Return(op, v) == [op |-> op, kind |-> "return", val |-> v, msg |-> ""]
Raise(op, e, m) == [op |-> op, kind |-> "raise", val |-> e, msg |-> m]

\* ------------------------------------------------------------ pure functions
Min(a, b) == IF a < b THEN a ELSE b

\* len(set(payload))
DistinctBytes(payload) == Cardinality({payload[k] : k \in 1..Len(payload)})

\* Variant: the ratio taken over len(payload) instead of len(set(payload)).
calculate_h_score_noset(payload) ==
    IF Len(payload) = 0 THEN 0
    ELSE LET d == Len(payload)
             scaled == (d * PHI_E7_INT + ((d * PHI_E7_FRAC) \div 10000)) \div Len(payload)
         IN  Min(SCORE_CAP_E7, scaled)

\* _calculate_h_score, in units of 10^-7:
\* min(0.99, (len(set(payload)) / len(payload)) * PHI)
calculate_h_score(payload) ==
    IF Len(payload) = 0 THEN 0
    ELSE LET d == DistinctBytes(payload)
             scaled == (d * PHI_E7_INT + ((d * PHI_E7_FRAC) \div 10000)) \div Len(payload)
         IN  Min(SCORE_CAP_E7, scaled)

\* Variant: round(h_score_val * 10000) in place of int(...).
h_score_field_round(h) == ((h + 500) \div 1000) % UINT16

\* int(h_score_val * 10000)
h_score_field(h) == (h \div 1000) % UINT16

\* data_bytes[:32]
Slice32(data_bytes) == SubSeq(data_bytes, 1, Min(Len(data_bytes), PAYLOAD_SIZE))

\* .ljust(32, b'\0')
Ljust32(b) == b \o [k \in 1..(PAYLOAD_SIZE - Len(b)) |-> 0]

clean_payload(data_bytes) == Ljust32(Slice32(data_bytes))

\* Reading the c_char * 32 field of a view: ctypes returns the bytes before
\* the first zero byte (all 32 if there is none).
RECURSIVE UpToNul(_)
UpToNul(b) ==
    IF b = << >> \/ Head(b) = 0 THEN << >> ELSE <<Head(b)>> \o UpToNul(Tail(b))

payload_get(rec) == UpToNul(rec.payload)

\* FC496Struct.from_buffer(self.map, offset) on a map that is closed or not:
\* "" when the overlay is made, else the message of the ValueError raised.
from_buffer(closed, offset) ==
    IF closed THEN "mmap closed or invalid"
    ELSE IF offset < 0 THEN "offset cannot be negative"
    ELSE IF offset + SIZEOF_FC496 > size_bytes THEN "Buffer size too small"
    ELSE ""

\* Variant: read_atom without the test of the magic field.
read_atom_on_nomagic(f, closed, index) ==
    LET offset == index * ATOM_SIZE
        err == from_buffer(closed, offset)
    IN  IF err # "" THEN Raise("read_atom", "ValueError", err)
        ELSE Return("read_atom", "FC496Struct")

\* read_atom(index) over the bytes f of a map that is closed or not.
read_atom_on(f, closed, index) ==
    LET offset == index * ATOM_SIZE
        err == from_buffer(closed, offset)
    IN  IF err # "" THEN Raise("read_atom", "ValueError", err)
        ELSE IF f[offset].magic # MAGIC_SIG THEN Return("read_atom", "None")
        ELSE Return("read_atom", "FC496Struct")

\* What read_atom(index) gives in the current state.
read_outcome(index) == read_atom_on(file, map_closed, index)

\* Variant: FC496Struct without _pack_ = 1.  The fields are then aligned,
\* strands lies at bytes 64..71 of the overlay, and writing it puts the low
\* 16 bits of 0xDEADBEEF over the magic of the following slot.
write_outcome_unpacked(index, data_bytes, schema_type, now) ==
    IF index >= self_atom_capacity THEN
        [ret |-> Raise("write_atom", "IndexError", "Storage Full"), file |-> file]
    ELSE LET h_score_val == calculate_h_score(data_bytes)
             offset == index * ATOM_SIZE
             err == from_buffer(map_closed, offset)
         IN  IF h_score_val < H_THRESHOLD_E7 THEN
                 [ret |-> Return("write_atom", "False"), file |-> file]
             ELSE IF err # "" THEN
                 [ret |-> Raise("write_atom", "ValueError", err), file |-> file]
             ELSE
                 [ret |-> Return("write_atom", "True"),
                  file |-> [o \in Offsets |->
                        IF o = offset THEN
                            [magic |-> MAGIC_SIG,
                             pi_index |-> now,
                             geo_hash |-> GEO_HASH,
                             schema |-> schema_type % UINT16,
                             h_score |-> h_score_field(h_score_val),
                             flags |-> FLAGS,
                             payload |-> clean_payload(data_bytes),
                             strands |-> STRANDS]
                        ELSE IF o = offset + ATOM_SIZE THEN
                            [file[o] EXCEPT !.magic = STRANDS[4]]
                        ELSE file[o]]]

\* What write_atom(index, data_bytes, schema_type) does in the current state,
\* at time now: its outcome and the bytes of the file afterwards.
write_outcome(index, data_bytes, schema_type, now) ==
    IF index >= self_atom_capacity THEN
        [ret |-> Raise("write_atom", "IndexError", "Storage Full"), file |-> file]
    ELSE LET h_score_val == calculate_h_score(data_bytes)
             offset == index * ATOM_SIZE
             err == from_buffer(map_closed, offset)
         IN  IF h_score_val < H_THRESHOLD_E7 THEN
                 [ret |-> Return("write_atom", "False"), file |-> file]
             ELSE IF err # "" THEN
                 [ret |-> Raise("write_atom", "ValueError", err), file |-> file]
             ELSE
                 [ret |-> Return("write_atom", "True"),
                  file |-> [file EXCEPT ![offset] =
                        [magic |-> MAGIC_SIG,
                         pi_index |-> now,
                         geo_hash |-> GEO_HASH,
                         schema |-> schema_type % UINT16,
                         h_score |-> h_score_field(h_score_val),
                         flags |-> FLAGS,
                         payload |-> clean_payload(data_bytes),
                         strands |-> STRANDS]]]

\* Variant: closing a closed map raises, as every other use of a closed mmap.
close_outcome_strict ==
    IF map_closed THEN
        [ret |-> Raise("close", "ValueError", "mmap closed or invalid"),
         map_closed |-> map_closed, file_closed |-> file_closed]
    ELSE IF atom # {} THEN
        [ret |-> Raise("close", "BufferError", "cannot close exported pointers exist"),
         map_closed |-> map_closed, file_closed |-> file_closed]
    ELSE
        [ret |-> Return("close", "None"), map_closed |-> TRUE, file_closed |-> TRUE]

\* What close() does in the current state.  self.map.close() raises
\* BufferError while a view exported from the map is alive, and then
\* self.file_obj.close() is not reached.  Closing a closed mmap or a closed
\* file object does nothing.
close_outcome ==
    IF ~map_closed /\ atom # {} THEN
        [ret |-> Raise("close", "BufferError", "cannot close exported pointers exist"),
         map_closed |-> map_closed, file_closed |-> file_closed]
    ELSE
        [ret |-> Return("close", "None"), map_closed |-> TRUE, file_closed |-> TRUE]

\* Variant: the file opened with "w+b", which empties an existing file before
\* it is extended to size_bytes.
init_storage_file_wplus == [o \in Offsets |-> ZeroAtom]

\* The bytes mapped by _init_storage: a file that does not exist is created
\* and extended with zero bytes to size_bytes, an existing one is used as is.
init_storage_file ==
    LET is_new == (file = NoFile)
    IN  IF is_new THEN [o \in Offsets |-> ZeroAtom] ELSE file

\* -------------------------------------------------------------------- state
Init ==
    /\ file = [o \in Offsets |-> ZeroAtom]
    /\ map_closed = FALSE
    /\ file_closed = FALSE
    /\ atom = {}
    /\ ret = Return("__init__", "None")
    /\ written = {}
    /\ self_atom_capacity = atom_capacity
    /\ writer = Idle

\* ------------------------------------------------------------------ actions
write_atom(index, data_bytes, schema_type, now) ==
    LET out == write_outcome(index, data_bytes, schema_type, now)
    IN  /\ ret' = out.ret
        /\ file' = out.file
        /\ written' = IF out.ret.val = "True" THEN written \cup {index * ATOM_SIZE}
                      ELSE written
        /\ UNCHANGED <<map_closed, file_closed, atom, self_atom_capacity, writer>>

\* atom = zpa.read_atom(index): the caller's variable is rebound when the call
\* returns and keeps its value when the call raises.
read_atom(index) ==
    LET r == read_outcome(index)
    IN  /\ ret' = r
        /\ atom' = IF r.kind = "raise" THEN atom
                   ELSE IF r.val = "None" THEN {}
                   ELSE {index * ATOM_SIZE}
        /\ UNCHANGED <<file, map_closed, file_closed, written, self_atom_capacity, writer>>

\* The caller drops its view (its variable goes out of scope or is deleted).
release_view ==
    /\ atom # {}
    /\ atom' = {}
    /\ UNCHANGED <<file, map_closed, file_closed, ret, written, self_atom_capacity, writer>>

close ==
    LET out == close_outcome
    IN  /\ ret' = out.ret
        /\ map_closed' = out.map_closed
        /\ file_closed' = out.file_closed
        /\ UNCHANGED <<file, atom, written, self_atom_capacity, writer>>

\* os.remove(filename) by the driver, after close.
remove_file ==
    /\ map_closed /\ file_closed
    /\ file # NoFile
    /\ file' = NoFile
    /\ written' = {}
    /\ UNCHANGED <<map_closed, file_closed, atom, ret, self_atom_capacity, writer>>

\* PhoenixZPA(filename, size_mb) on the same path after the previous engine
\* was closed: __init__ and _init_storage.
init_storage ==
    /\ map_closed /\ file_closed
    /\ file' = init_storage_file
    /\ map_closed' = FALSE
    /\ file_closed' = FALSE
    /\ atom' = {}
    /\ ret' = Return("__init__", "None")
    /\ self_atom_capacity' = atom_capacity
    /\ UNCHANGED <<written, writer>>

Next ==
    \/ \E index \in Indexes, data_bytes \in Payloads, schema_type \in Schemas, now \in Times :
           write_atom(index, data_bytes, schema_type, now)
    \/ \E index \in Indexes : read_atom(index)
    \/ release_view
    \/ close
    \/ remove_file
    \/ init_storage

Spec == Init /\ [][Next]_vars

\* ------------------------------------------- a reader racing a writer thread
\* Variant: the fields are assigned with magic last.
FieldOrder_magic_last ==
    <<"pi_index", "geo_hash", "schema", "h_score", "flags", "payload", "strands", "magic">>

\* The assignments of write_atom, in the order of the code.
FieldOrder ==
    <<"magic", "pi_index", "geo_hash", "schema", "h_score", "flags", "payload", "strands">>

RacePayloads == {Payload(0, 1), Payload(2, 3), Payload(3, 2)}

\* write_atom up to the overlay: bounds check, filter, from_buffer.  A call
\* that raises or returns False is over; an accepted one goes on to assign
\* its fields one by one.
race_begin(index, data_bytes, schema_type, now) ==
    LET out == write_outcome(index, data_bytes, schema_type, now)
    IN  /\ writer = Idle
        /\ IF out.ret.val = "True"
           THEN /\ writer' = [pc |-> 1, offset |-> index * ATOM_SIZE,
                              rec |-> out.file[index * ATOM_SIZE]]
                /\ UNCHANGED ret
           ELSE /\ ret' = out.ret
                /\ UNCHANGED writer
        /\ UNCHANGED <<file, map_closed, file_closed, atom, written, self_atom_capacity>>

\* The next assignment of the write in progress; after the last one the call
\* returns True.
race_field ==
    /\ writer # Idle
    /\ file' = [file EXCEPT ![writer.offset] =
                   [@ EXCEPT ![FieldOrder[writer.pc]] = writer.rec[FieldOrder[writer.pc]]]]
    /\ IF writer.pc < Len(FieldOrder)
       THEN /\ writer' = [writer EXCEPT !.pc = @ + 1]
            /\ UNCHANGED <<ret, written>>
       ELSE /\ writer' = Idle
            /\ ret' = Return("write_atom", "True")
            /\ written' = written \cup {writer.offset}
    /\ UNCHANGED <<map_closed, file_closed, atom, self_atom_capacity>>

NextRace ==
    \/ \E index \in Indexes, data_bytes \in RacePayloads, schema_type \in Schemas, now \in Times :
           race_begin(index, data_bytes, schema_type, now)
    \/ race_field
    \/ \E index \in Indexes : read_atom(index)

SpecRace == Init /\ [][NextRace]_vars

\* ------------------------------------------------------- terms of the claims
IsOpen == ~map_closed /\ ~file_closed
IsClosed == map_closed /\ file_closed
InRange(i) == 0 <= i /\ i < atom_capacity
OffsetOf(i) == i * ATOM_SIZE

\* "admission score >= 1 / 1.618...": (distinct / length) * PHI >= 1 / PHI, that
\* is distinct * PHI^2 >= length, with PHI^2 = 2.6180...; no payload of the
\* model is within 10^-4 of the boundary.
Admissible(p) ==
    /\ Len(p) > 0
    /\ Cardinality({p[k] : k \in 1..Len(p)}) * 26180 >= Len(p) * 10000

AdmissiblePayloads == {p \in Payloads : Admissible(p)}
RejectedPayloads == {p \in Payloads : ~Admissible(p)}
InRangeIndexes == {i \in Indexes : InRange(i)}
OutOfRangeIndexes == {i \in Indexes : ~InRange(i)}

\* p truncated to 32 bytes, or right-padded with zero bytes to 32 bytes.
PaddedTo32(p) == [k \in 1..PAYLOAD_SIZE |-> IF k <= Len(p) THEN p[k] ELSE 0]

ReturnedTrue(r) == r.op = "write_atom" /\ r.kind = "return" /\ r.val = "True"
ReturnedFalse(r) == r.op = "write_atom" /\ r.kind = "return" /\ r.val = "False"
ReturnedRecord(r) == r.op = "read_atom" /\ r.kind = "return" /\ r.val = "FC496Struct"
ReturnedAbsent(r) == r.op = "read_atom" /\ r.kind = "return" /\ r.val = "None"
\* The bounds error is the IndexError that write_atom raises.
RaisedIndexOutOfRange(r) == r.kind = "raise" /\ r.val = "IndexError"
\* The code has no EngineClosed error; the nearest is the ValueError of a
\* closed mmap.
RaisedEngineClosed(r) == r.kind = "raise" /\ r.msg = "mmap closed or invalid"

\* ------------------------------------------------------------------- claims

\* C1: on an open engine, write_atom(i, p, s) with i in range and p admissible
\* returns True, and read_atom(i) issued next returns a record whose payload
\* is p truncated or zero-padded to 32 bytes, whose schema is s and whose
\* magic is 0x1F0.
C1_RoundTrip ==
    IsOpen =>
        \A i \in InRangeIndexes, p \in AdmissiblePayloads, s \in Schemas, t \in Times :
            LET out == write_outcome(i, p, s, t)
            IN  /\ ReturnedTrue(out.ret)
                /\ ReturnedRecord(read_atom_on(out.file, map_closed, i))
                /\ payload_get(out.file[OffsetOf(i)]) = PaddedTo32(p)
                /\ out.file[OffsetOf(i)].schema = s
                /\ out.file[OffsetOf(i)].magic = MAGIC_SIG

\* C2: on an open engine, write_atom(i, p, s) with i in range and p below the
\* threshold returns False without raising and leaves every field of every
\* slot as it was, so every slot reads as before.
C2_RejectionUntouched ==
    IsOpen =>
        \A i \in InRangeIndexes, p \in RejectedPayloads, s \in Schemas, t \in Times :
            LET out == write_outcome(i, p, s, t)
            IN  /\ ReturnedFalse(out.ret)
                /\ out.file = file
                /\ \A j \in InRangeIndexes :
                       read_atom_on(out.file, map_closed, j) = read_outcome(j)

\* A rejected write has just returned False on an engine that holds a record
\* in one slot and none in another.
C2_Witness ==
    /\ IsOpen
    /\ ReturnedFalse(ret)
    /\ \E o1, o2 \in Offsets : file[o1].magic = MAGIC_SIG /\ file[o2].magic # MAGIC_SIG

\* C3: on an open engine write_atom raises the bounds error and writes nothing
\* whenever index >= capacity or index < 0, and write_atom(capacity - 1, p, s)
\* with p admissible returns True.
C3_WriteBounds ==
    IsOpen =>
        \A p \in Payloads, s \in Schemas, t \in Times :
            /\ \A i \in OutOfRangeIndexes :
                   LET out == write_outcome(i, p, s, t)
                   IN  RaisedIndexOutOfRange(out.ret) /\ out.file = file
            /\ Admissible(p) => ReturnedTrue(write_outcome(atom_capacity - 1, p, s, t).ret)

\* C4: on an open engine read_atom raises the same bounds error as write_atom
\* whenever index >= capacity or index < 0, and returns neither a record nor
\* absent.
C4_ReadBounds ==
    IsOpen => \A i \in OutOfRangeIndexes : RaisedIndexOutOfRange(read_outcome(i))

\* C5: after close(), write_atom and read_atom raise EngineClosed for every
\* index and payload; neither returns a value nor raises another error.
C5_ClosedRaises ==
    IsClosed =>
        \A i \in Indexes :
            /\ RaisedEngineClosed(read_outcome(i))
            /\ \A p \in Payloads, s \in Schemas, t \in Times :
                   RaisedEngineClosed(write_outcome(i, p, s, t).ret)

\* C6: write_atom with an index outside [0, capacity) and a payload the filter
\* would reject raises the bounds error and does not return False.
C6_BoundsBeforeFilter ==
    IsOpen =>
        \A i \in OutOfRangeIndexes, p \in RejectedPayloads, s \in Schemas, t \in Times :
            LET out == write_outcome(i, p, s, t)
            IN  RaisedIndexOutOfRange(out.ret) /\ ~ReturnedFalse(out.ret)

\* C7: on an engine over a newly created (zero-filled) file, read_atom(i) for
\* an index in range that has received no accepted write returns absent
\* (None), whatever happened to the other slots.
C7_Absence ==
    IsOpen =>
        \A i \in InRangeIndexes :
            OffsetOf(i) \notin written => ReturnedAbsent(read_outcome(i))

\* read_atom has just returned None on an engine in which another slot was
\* written.
C7_Witness ==
    /\ IsOpen
    /\ ReturnedAbsent(ret)
    /\ written # {}
    /\ Offsets \ written # {}

\* C8: an accepted write_atom(i, p2, s2) to a slot that already holds an
\* accepted record leaves read_atom(i) with payload p2 truncated or
\* zero-padded to 32 bytes and schema s2, and every payload byte beyond
\* len(p2) zero.
C8_LastWriteWins ==
    IsOpen =>
        \A i \in InRangeIndexes, p2 \in AdmissiblePayloads, s2 \in Schemas, t \in Times :
            OffsetOf(i) \in written =>
                LET out == write_outcome(i, p2, s2, t)
                IN  /\ ReturnedRecord(read_atom_on(out.file, map_closed, i))
                    /\ payload_get(out.file[OffsetOf(i)]) = PaddedTo32(p2)
                    /\ out.file[OffsetOf(i)].schema = s2
                    /\ \A k \in (Len(p2) + 1)..PAYLOAD_SIZE :
                           out.file[OffsetOf(i)].payload[k] = 0

\* C9: close() on an engine that is already closed raises nothing and leaves
\* the engine closed.
C9_CloseIdempotent ==
    IsClosed =>
        /\ close_outcome.ret = Return("close", "None")
        /\ close_outcome.map_closed
        /\ close_outcome.file_closed

\* The engine is closed and close() has returned; close() called again from
\* here ends in this same state.
C9_Witness ==
    /\ IsClosed
    /\ ret = Return("close", "None")

\* C10: constructing an engine on the path of an existing backing file leaves
\* every slot as it was; read_atom then returns the records written before
\* the close, and slots that were absent stay absent.
C10_ReopenPreserves ==
    (IsClosed /\ file # NoFile) =>
        /\ init_storage_file = file
        /\ \A i \in InRangeIndexes :
               IF OffsetOf(i) \in written
               THEN /\ ReturnedRecord(read_atom_on(init_storage_file, FALSE, i))
                    /\ init_storage_file[OffsetOf(i)] = file[OffsetOf(i)]
                    /\ init_storage_file[OffsetOf(i)].magic = MAGIC_SIG
               ELSE ReturnedAbsent(read_atom_on(init_storage_file, FALSE, i))

\* An engine has just been constructed on a file that holds a record in one
\* slot and none in another.
C10_Witness ==
    /\ IsOpen
    /\ ret = Return("__init__", "None")
    /\ \E o1, o2 \in Offsets : file[o1].magic = MAGIC_SIG /\ file[o2].magic # MAGIC_SIG

\* ------------------------------------------------------------ claims, part 2
ZeroBytes(n) == [k \in 1..n |-> 0]
AllZero(p) == \A k \in 1..Len(p) : p[k] = 0
ZeroPayloads == {p \in Payloads : AllZero(p)}

\* C11 as stated: an all-zero payload of any length, lengths 1 and 2 included,
\* scores below the threshold, so write_atom at an index in range returns
\* False and writes nothing.
C11_AllZeroRejected ==
    IsOpen =>
        \A i \in InRangeIndexes, p \in ZeroPayloads, s \in Schemas, t \in Times :
            LET out == write_outcome(i, p, s, t)
            IN  ReturnedFalse(out.ret) /\ out.file = file

\* The scores of the all-zero payloads of length 0 and 3..MaxZeroLen are
\* below the threshold.
C11_ZeroScoresBelow ==
    \A n \in {0} \cup (3..MaxZeroLen) :
        calculate_h_score(ZeroBytes(n)) < H_THRESHOLD_E7

\* C11 as amended: an all-zero payload of length 0 or of length 3 or more
\* scores below the threshold, so write_atom at an index in range returns
\* False and writes nothing.  (One zero byte scores 0.99 and two score 0.809:
\* they are accepted.)
C11_AllZeroRejectedFrom3 ==
    /\ C11_ZeroScoresBelow
    /\ IsOpen =>
           \A i \in InRangeIndexes, p \in ZeroPayloads, s \in Schemas, t \in Times :
               Len(p) \notin {1, 2} =>
                   LET out == write_outcome(i, p, s, t)
                   IN  ReturnedFalse(out.ret) /\ out.file = file

\* A write has just been rejected on an engine in which a slot holds an
\* accepted all-zero payload (of length 1 or 2) and nothing else was written.
C11_Witness ==
    /\ IsOpen
    /\ ReturnedFalse(ret)
    /\ Cardinality(written) = 1
    /\ \E o \in written : file[o].payload = ZeroPayload

\* C12: in every reachable state the capacity is the one computed at
\* construction, it is the mapped length divided by 64 with no remainder, and
\* a megabyte holds 16384 atoms; no write_atom, read_atom or close changes it.
C12_CapacityFixed ==
    /\ self_atom_capacity = size_bytes \div ATOM_SIZE
    /\ self_atom_capacity * ATOM_SIZE = map_length
    /\ map_length % ATOM_SIZE = 0
    /\ (1 * 1024 * 1024) \div ATOM_SIZE = 16384
    /\ (1 * 1024 * 1024) % ATOM_SIZE = 0

\* Every slot has been written and the engine has been closed.
C12_Witness ==
    /\ IsClosed
    /\ ret = Return("close", "None")
    /\ file # NoFile
    /\ written = Offsets

\* C13: once read_atom(i) would return a record, no write_atom (accepted or
\* rejected, to any index) and no read_atom makes slot i read as absent again.
\* On an open engine read_atom(i) returns a record exactly when the magic of
\* slot i is 0x1F0, and no step that leaves the engine open (write_atom,
\* read_atom, the caller dropping its view, a close() that raises) takes the
\* magic 0x1F0 away from a slot.
C13_OccupancyMonotonic ==
    /\ [](IsOpen => \A i \in InRangeIndexes :
              ReturnedRecord(read_outcome(i)) <=> file[OffsetOf(i)].magic = MAGIC_SIG)
    /\ [][(IsOpen /\ IsOpen') =>
              \A o \in Offsets : file[o].magic = MAGIC_SIG => file'[o].magic = MAGIC_SIG]_vars

\* Every slot holds a record and a write has just been rejected.
C13_Witness ==
    /\ IsOpen
    /\ ReturnedFalse(ret)
    /\ \A i \in InRangeIndexes : ReturnedRecord(read_outcome(i))

\* C14: close() on an open engine, whatever the engine has written or handed
\* out, returns None and leaves both the memory map and the file closed.
C14_CloseTearsDown ==
    IsOpen =>
        /\ close_outcome.ret = Return("close", "None")
        /\ close_outcome.map_closed
        /\ close_outcome.file_closed

\* C15: a view v returned by read_atom(i) aliases slot i: after a later
\* accepted write_atom(i, p2, s2), v.payload is p2 truncated or zero-padded
\* to 32 bytes and v.schema is s2.  The view is the overlay on the slot at
\* the offset held in atom, so its fields are read from the file as it is
\* after the write.
C15_ViewAliases ==
    (IsOpen /\ atom # {}) =>
        \A o \in atom, p2 \in AdmissiblePayloads, s2 \in Schemas, t \in Times :
            LET out == write_outcome(o \div ATOM_SIZE, p2, s2, t)
            IN  /\ ReturnedTrue(out.ret)
                /\ payload_get(out.file[o]) = PaddedTo32(p2)
                /\ out.file[o].schema = s2

\* C16: an accepted write_atom(i, ...) changes slot i only: every other slot
\* keeps all its fields and read_atom gives the same outcome for it as
\* before; and a read_atom step changes nothing in the file.
C16_SlotIsolation ==
    /\ [](IsOpen =>
            \A i \in InRangeIndexes, p \in AdmissiblePayloads, s \in Schemas, t \in Times :
                LET out == write_outcome(i, p, s, t)
                IN  /\ ReturnedTrue(out.ret)
                    /\ \A j \in InRangeIndexes \ {i} :
                           /\ out.file[OffsetOf(j)] = file[OffsetOf(j)]
                           /\ read_atom_on(out.file, map_closed, j) = read_outcome(j))
    /\ [][(ret'.op = "read_atom" /\ \E i \in Indexes : read_atom(i)) => file' = file]_vars

\* Two slots are occupied, so an accepted write has acted next to an occupied
\* slot, and a read_atom has returned a view since.
C16_Witness ==
    /\ IsOpen
    /\ Cardinality(written) >= 2
    /\ \A o \in written : file[o].magic = MAGIC_SIG
    /\ ReturnedRecord(ret)
    /\ atom # {}

\* floor(score * 10000) for score = min(0.99, (distinct / length) * PHI),
\* with PHI * 10000 = 16180.3398875.
ExpectedScore(p) ==
    LET d == Cardinality({p[k] : k \in 1..Len(p)})
    IN  Min(9900, (d * 16180 + ((d * 3398875) \div 10000000)) \div Len(p))

\* Every payload of n bytes with d distinct values, n up to MaxScoreLen, that
\* passes the filter is encoded as floor(score * 10000), within 6180..9900.
C17_ScoreTable ==
    \A n \in 1..MaxScoreLen : \A d \in 1..n :
        LET p == Payload(n, d)
            h == calculate_h_score(p)
        IN  h >= H_THRESHOLD_E7 =>
                /\ h_score_field(h) = ExpectedScore(p)
                /\ h_score_field(h) \in 6180..9900

\* C17: in every reachable state of an engine started on a new file, every
\* occupied slot holds the score floor(score * 10000) of the payload accepted
\* there, and that value lies in 6180..9900: each accepted write stores the
\* score of its own payload, and each occupied slot holds the score of an
\* admissible payload whose first 32 bytes, zero-padded, are the slot's.
C17_StoredScore ==
    /\ C17_ScoreTable
    /\ IsOpen =>
          \A i \in InRangeIndexes, p \in AdmissiblePayloads, s \in Schemas, t \in Times :
              LET out == write_outcome(i, p, s, t)
              IN  /\ ReturnedTrue(out.ret)
                  /\ out.file[OffsetOf(i)].h_score = ExpectedScore(p)
    /\ file # NoFile =>
          \A o \in Offsets :
              file[o].magic = MAGIC_SIG =>
                  /\ file[o].h_score \in 6180..9900
                  /\ \E p \in AdmissiblePayloads :
                         /\ file[o].payload = PaddedTo32(p)
                         /\ file[o].h_score = ExpectedScore(p)

\* One occupied slot holds a score below the cap and another the cap itself.
C17_Witness ==
    /\ file # NoFile
    /\ \E o1, o2 \in written :
           /\ file[o1].magic = MAGIC_SIG /\ file[o1].h_score = 8090
           /\ file[o2].magic = MAGIC_SIG /\ file[o2].h_score = 9900

Busy == writer # Idle
\* The write in progress has assigned magic and not yet its payload.
MagicSetPayloadPending ==
    /\ Busy
    /\ \E k \in 1..(writer.pc - 1) : FieldOrder[k] = "magic"
    /\ \E k \in writer.pc..Len(FieldOrder) : FieldOrder[k] = "payload"

\* C18: a write is not atomic.  Each step of an accepted write_atom assigns
\* one field and leaves the seven others and every other slot as they were,
\* magic comes first, and the eight steps together store the record that
\* write_atom stores.  So from the first step on, a read_atom of the slot by
\* another thread returns a record, and until the payload is assigned that
\* record carries the payload the slot had before the write.
C18_PartialRecordObservable ==
    /\ []((Busy /\ writer.pc > 1) =>
             /\ file[writer.offset].magic = MAGIC_SIG
             /\ ReturnedRecord(read_outcome(writer.offset \div ATOM_SIZE)))
    /\ [][(Busy /\ writer'.pc # writer.pc) =>
             /\ \A f \in DOMAIN ZeroAtom \ {FieldOrder[writer.pc]} :
                    file'[writer.offset][f] = file[writer.offset][f]
             /\ file'[writer.offset][FieldOrder[writer.pc]] = writer.rec[FieldOrder[writer.pc]]
             /\ \A o \in Offsets \ {writer.offset} : file'[o] = file[o]
             /\ writer' = Idle => file'[writer.offset] = writer.rec]_vars

\* The writer is inside write_atom on a slot that never held a record, and
\* the reader's read_atom of that slot has returned a record whose payload is
\* still all zero, not the payload being written.
C18_Witness ==
    /\ MagicSetPayloadPending
    /\ writer.offset \notin written
    /\ atom = {writer.offset}
    /\ ReturnedRecord(ret)
    /\ file[writer.offset].payload = ZeroPayload
    /\ file[writer.offset].payload # writer.rec.payload

====
